---- MODULE Spec2Model ----
(***************************************************************************)
(* Model of the metrics aggregation scripts of BasicTS:                    *)
(*   src/collect_metrics.py               (console report)                 *)
(*   src/wandb_visualize_test_metrics.py  (hand-off of rows to wandb)      *)
(*                                                                         *)
(* Representation.                                                         *)
(*  - A path segment, a setting and a JSON key are kept split at "_": the  *)
(*    sequence of tokens str.split("_") returns.  Join gives the string.   *)
(*  - A JSON number is a fixed-point integer counted in 1/Scale, so 5.0 is *)
(*    5 * Scale.  A metric value is [t, v]: t = "num" (a JSON number),     *)
(*    t = "none" (key missing or null), t = "str" (a JSON string that      *)
(*    float() cannot parse, such as "n/a").                                *)
(*  - A directory visited by os.walk is [dir, hasfile, mtime, content];    *)
(*    dir is the path below the root, <<>> for the root itself.            *)
(*  - A dict is a sequence of entries in insertion order.                  *)
(***************************************************************************)
EXTENDS Integers, Sequences, FiniteSets, TLC

VARIABLES
    script,     \* which main() runs: "collect_metrics" or "wandb"
    fs,         \* the tree below --root, in os.walk order
    pc,         \* position of main()
    wi,         \* index into fs of the directory the running walk visits next
    all_runs,   \* dict (model, dataset) -> list of runs, in insertion order
    best,       \* dict (model, dataset) -> run, result of choose_best
    rows,       \* list built by collect_horizon_rows
    stdout,     \* lines printed to standard output
    stderr,     \* lines printed to sys.stderr
    tables,     \* rows handed to wandb.Table.add_data, per logged table
    raised      \* "none", or the exception that left main()

vars == <<script, fs, pc, wi, all_runs, best, rows, stdout, stderr, tables, raised>>

----------------------------------------------------------------------------
(* Bounds of the model *)

\* largest whole MAE of a generated result file
MaxMAE == 2
\* most result files in a generated tree of the report specification
MaxRuns == 3
\* most directories in a generated tree of the full specification
MaxDirs == 2
\* most result files in a generated tree of the table specification
MaxFiles == 2

\* fixed-point unit: the finest precision the scripts print is "{:.4f}"
Scale == 10000

----------------------------------------------------------------------------
(* Strings *)

\* The strings that occur as model or dataset names, in lexicographic order.
NameOrder == <<"A", "B", "LongModel", "PEMS", "X", "Y">>

RECURSIVE IndexOf(_, _, _)
IndexOf(s, x, i) ==
    IF i > Len(s) THEN 0
    ELSE IF s[i] = x THEN i
    ELSE IndexOf(s, x, i + 1)

\* s1 < s2 on Python str, for the names of NameOrder
StrLT(s1, s2) == IndexOf(NameOrder, s1, 1) < IndexOf(NameOrder, s2, 1)

\* "_".join(tokens): the string whose split("_") is tokens
RECURSIVE Join(_)
Join(tokens) ==
    IF Len(tokens) = 0 THEN ""
    ELSE IF Len(tokens) = 1 THEN tokens[1]
    ELSE tokens[1] \o "_" \o Join(Tail(tokens))

----------------------------------------------------------------------------
(* JSON values *)

None == [t |-> "none", v |-> 0]
Num(n) == [t |-> "num", v |-> n]
Str == [t |-> "str", v |-> 0]

\* isinstance(v, (int, float))
IsNumber(x) == x.t = "num"

\* a JSON object holding the three metrics
Metrics(mae, rmse, mape) ==
    [kind |-> "dict", MAE |-> mae, RMSE |-> rmse, MAPE |-> mape]
\* {} : the default of data.get("overall", {})
EmptyDict == Metrics(None, None, None)
\* a JSON value that is no object (a number, a list, null)
Scalar == [kind |-> "scalar", MAE |-> None, RMSE |-> None, MAPE |-> None]

\* data.get(key, default) on a dict kept as a sequence of <<key, value>>
RECURSIVE DictGet(_, _, _)
DictGet(entries, key, default) ==
    IF Len(entries) = 0 THEN default
    ELSE IF entries[1][1] = key THEN entries[1][2]
    ELSE DictGet(Tail(entries), key, default)

----------------------------------------------------------------------------
(* Paths *)

\* os.path.relpath(dirpath, root_dir).split(os.sep): "." for the root itself
RelParts(dir) == IF Len(dir) = 0 THEN << <<".">> >> ELSE dir

RECURSIVE JoinPath(_)
JoinPath(dir) ==
    IF Len(dir) = 0 THEN "" ELSE Join(dir[1]) \o "/" \o JoinPath(Tail(dir))

\* os.path.join(dirpath, "test_metrics.json")
MetricsPath(dir) == "root/" \o JoinPath(dir) \o "test_metrics.json"

TwoDigits(n) == IF n < 10 THEN "0" \o ToString(n) ELSE ToString(n)

\* datetime.fromtimestamp(mtime).strftime("%Y-%m-%d %H:%M"), for an mtime
\* within the first day of the epoch (UTC): the seconds are dropped
Strftime(mtime) ==
    "1970-01-01 " \o TwoDigits((mtime \div 3600) % 24) \o ":"
                  \o TwoDigits((mtime \div 60) % 60)

----------------------------------------------------------------------------
(* collect_all_runs *)

\* The try block: open, json.load, data.get("overall", {}), overall.get(...).
\* ok = FALSE when any of them raises (unreadable or not JSON; the top level
\* is no dict; the "overall" entry is no dict).
ParseOverall(content) ==
    IF content.kind # "dict"
    THEN [ok |-> FALSE, MAE |-> None, RMSE |-> None, MAPE |-> None]
    ELSE LET overall == DictGet(content.entries, <<"overall">>, EmptyDict)
         IN  IF overall.kind # "dict"
             THEN [ok |-> FALSE, MAE |-> None, RMSE |-> None, MAPE |-> None]
             ELSE [ok |-> TRUE, MAE |-> overall.MAE, RMSE |-> overall.RMSE,
                   MAPE |-> overall.MAPE]

WarnLine(dir) == "[WARN] " \o MetricsPath(dir)

\* all_runs[key].append(run) on a defaultdict(list)
RECURSIVE DictAppend(_, _, _)
DictAppend(d, key, run) ==
    IF Len(d) = 0 THEN << [key |-> key, runs |-> <<run>>] >>
    ELSE IF d[1].key = key
         THEN << [d[1] EXCEPT !.runs = Append(@, run)] >> \o Tail(d)
         ELSE << d[1] >> \o DictAppend(Tail(d), key, run)

ModelOf(dir) == Join(RelParts(dir)[1])
SettingOf(dir) == Join(RelParts(dir)[2])
\* setting.split("_")[0]
DatasetOf(dir) == RelParts(dir)[2][1]

RunOf(d, ov) ==
    [MAE |-> ov.MAE, RMSE |-> ov.RMSE, MAPE |-> ov.MAPE,
     path |-> MetricsPath(d.dir), setting |-> SettingOf(d.dir),
     time |-> Strftime(d.mtime), timestamp |-> d.mtime]

\* One iteration of the os.walk loop of collect_all_runs.
CollectAllRunsStep ==
    /\ pc = "collect_all_runs"
    /\ wi <= Len(fs)
    /\ LET d  == fs[wi]
           ov == ParseOverall(d.content)
       IN  IF ~d.hasfile
           THEN UNCHANGED <<all_runs, stderr>>
           ELSE IF ~ov.ok
           THEN /\ stderr' = Append(stderr, WarnLine(d.dir))
                /\ UNCHANGED all_runs
           ELSE IF Len(RelParts(d.dir)) < 2
           THEN UNCHANGED <<all_runs, stderr>>
           ELSE /\ all_runs' = DictAppend(all_runs,
                                   <<ModelOf(d.dir), DatasetOf(d.dir)>>,
                                   RunOf(d, ov))
                /\ UNCHANGED stderr
    /\ wi' = wi + 1
    /\ UNCHANGED <<script, fs, pc, best, rows, stdout, tables, raised>>

\* The walk is exhausted: return all_runs.
CollectAllRunsReturn ==
    /\ pc = "collect_all_runs"
    /\ wi > Len(fs)
    /\ pc' = "choose_best"
    /\ wi' = 1
    /\ UNCHANGED <<script, fs, all_runs, best, rows, stdout, stderr, tables, raised>>

----------------------------------------------------------------------------
(* choose_best *)

\* A sort key: <<0, n, d>> for the number n / d (d > 0), and <<1, 0, 1>> for
\* float("inf"); KeyLT is < on floats.
Inf == <<1, 0, 1>>
KeyLT(a, b) == a[1] < b[1] \/ (a[1] = b[1] /\ a[2] * b[3] < b[2] * a[3])

\* mae_or_inf with an absent MAE counted as zero
mae_or_zero(r) == IF IsNumber(r.MAE) THEN <<0, r.MAE.v, 1>> ELSE <<0, 0, 1>>

mae_or_inf(r) == IF IsNumber(r.MAE) THEN <<0, r.MAE.v, 1>> ELSE Inf

\* the minimum taken with <= : the last of the minimal elements
RECURSIVE MinFromLast(_, _, _)
MinFromLast(runs, i, cur) ==
    IF i > Len(runs) THEN cur
    ELSE IF ~KeyLT(mae_or_inf(cur), mae_or_inf(runs[i]))
         THEN MinFromLast(runs, i + 1, runs[i])
         ELSE MinFromLast(runs, i + 1, cur)

\* min(runs, key=mae_or_inf): the first of the minimal elements
RECURSIVE MinFrom(_, _, _)
MinFrom(runs, i, cur) ==
    IF i > Len(runs) THEN cur
    ELSE IF KeyLT(mae_or_inf(runs[i]), mae_or_inf(cur))
         THEN MinFrom(runs, i + 1, runs[i])
         ELSE MinFrom(runs, i + 1, cur)

MinByMae(runs) == MinFrom(runs, 2, runs[1])

choose_best(d) == [i \in 1..Len(d) |-> [key |-> d[i].key, run |-> MinByMae(d[i].runs)]]

ChooseBest ==
    /\ pc = "choose_best"
    /\ best' = choose_best(all_runs)
    /\ pc' = IF script = "collect_metrics" THEN "print_summary_table"
             ELSE "collect_horizon_rows"
    /\ UNCHANGED <<script, fs, wi, all_runs, rows, stdout, stderr, tables, raised>>

----------------------------------------------------------------------------
(* Formatting *)

MaxOf(S) == IF S = {} THEN 0 ELSE CHOOSE x \in S : \A y \in S : y <= x

RECURSIVE Rep(_, _)
Rep(c, n) == IF n <= 0 THEN "" ELSE c \o Rep(c, n - 1)

\* str.ljust(w), str.rjust(w), str.center(w)
Ljust(text, w) == text \o Rep(" ", w - Len(text))
Rjust(text, w) == Rep(" ", w - Len(text)) \o text
Center(text, w) ==
    LET pad  == w - Len(text)
        left == (pad \div 2) + (IF pad % 2 = 1 /\ w % 2 = 1 THEN 1 ELSE 0)
    IN  IF pad <= 0 THEN text
        ELSE Rep(" ", left) \o text \o Rep(" ", pad - left)

\* the text of a JSON string that is no number
StrText == "n/a"

\* f"{x:.2f}" of the number n / Scale
Fixed2(n) ==
    LET h == (n * 100 + (Scale \div 2)) \div Scale
    IN  ToString(h \div 100) \o "." \o TwoDigits(h % 100)

\* f"{x:.4f}" of the number n / Scale
Fixed4(n) ==
    LET t == (n * 10000 + (Scale \div 2)) \div Scale
        f == t % 10000
    IN  ToString(t \div 10000) \o "." \o Rep("0", 4 - Len(ToString(f))) \o ToString(f)

\* format_mape with the test "v <= 1" in place of "v < 1"
format_mape_scaled_at_one(mape) ==
    IF mape.t = "none" THEN ""
    ELSE IF mape.t = "str" THEN StrText
    ELSE IF mape.v <= Scale THEN Fixed2(mape.v * 100) \o "%"
    ELSE Fixed2(mape.v) \o "%"

\* "" for None, str(mape) when float(mape) raises, else "{v:.2f}%" of v * 100
\* when v < 1 and of v otherwise
format_mape(mape) ==
    IF mape.t = "none" THEN ""
    ELSE IF mape.t = "str" THEN StrText
    ELSE IF mape.v < Scale THEN Fixed2(mape.v * 100) \o "%"
    ELSE Fixed2(mape.v) \o "%"

\* a line of standard output: the table it belongs to, its kind, its text,
\* its cells before padding, and the row or model it was printed for
Line(tab, kind, text, cells, src) ==
    [tab |-> tab, kind |-> kind, text |-> text, cells |-> cells, src |-> src]

RECURSIVE BorderCols(_, _)
BorderCols(widths, i) ==
    IF i > Len(widths) THEN ""
    ELSE Rep("-", widths[i] + 2) \o "+" \o BorderCols(widths, i + 1)

border_line(widths) == "+" \o BorderCols(widths, 1)

Pad(text, w, align) ==
    IF align = "left" THEN Ljust(text, w)
    ELSE IF align = "right" THEN Rjust(text, w)
    ELSE Center(text, w)

RECURSIVE FormatCells(_, _, _, _)
FormatCells(cells, aligns, widths, i) ==
    IF i > Len(cells) THEN ""
    ELSE " " \o Pad(cells[i], widths[i], aligns[i]) \o " |"
         \o FormatCells(cells, aligns, widths, i + 1)

\* aligns is a list, one per cell
format_row(cells, aligns, widths) == "|" \o FormatCells(cells, aligns, widths, 1)

\* aligns="center": one alignment for every cell
format_row_all(cells, align, widths) ==
    format_row(cells, [i \in 1..Len(cells) |-> align], widths)

----------------------------------------------------------------------------
(* Sorting *)

\* sorted({...}) of a set of names
RECURSIVE SortedNames(_)
SortedNames(S) ==
    IF S = {} THEN <<>>
    ELSE LET m == CHOOSE x \in S : \A y \in S : ~StrLT(y, x)
         IN  <<m>> \o SortedNames(S \ {m})

\* Python's sort is stable: the element at index i goes after every element
\* with a smaller key and after the earlier elements with an equal key.
StablePlace(keys, i) ==
    1 + Cardinality({j \in 1..Len(keys) :
            KeyLT(keys[j], keys[i]) \/ (~KeyLT(keys[i], keys[j]) /\ j < i)})

\* sorted(s, key=...) / s.sort(key=...), for keys[i] the key of s[i]
StableSort(s, keys) ==
    [p \in 1..Len(s) |-> s[CHOOSE i \in 1..Len(s) : StablePlace(keys, i) = p]]

----------------------------------------------------------------------------
(* print_summary_table *)

HasKey(d, key) == \E i \in 1..Len(d) : d[i].key = key

\* best_metrics.get((m, d)), for a key the dict holds
BestGet(b, key) == b[CHOOSE i \in 1..Len(b) : b[i].key = key].run

RECURSIVE SumSeq(_)
SumSeq(s) == IF Len(s) = 0 THEN 0 ELSE s[1] + SumSeq(Tail(s))

\* the list maes of model m: the numeric MAE of its best run on each dataset
\* that has one
MaesOf(b, m, datasets) ==
    LET num(d) == HasKey(b, <<m, d>>) /\ IsNumber(BestGet(b, <<m, d>>).MAE)
    IN  [j \in 1..Cardinality({i \in 1..Len(datasets) : num(datasets[i])}) |->
            BestGet(b, <<m, datasets[
                CHOOSE i \in 1..Len(datasets) :
                    /\ num(datasets[i])
                    /\ Cardinality({k \in 1..i : num(datasets[k])}) = j]>>).MAE.v]

\* the mean taken over every dataset, one without a MAE counted as zero
ModelAvgMaeAllDatasets(b, m, datasets) ==
    LET maes == MaesOf(b, m, datasets)
    IN  IF Len(maes) > 0 THEN <<0, SumSeq(maes), Len(datasets)>> ELSE Inf

\* model_avg_mae[m]: sum(maes) / len(maes), or float("inf")
ModelAvgMae(b, m, datasets) ==
    LET maes == MaesOf(b, m, datasets)
    IN  IF Len(maes) > 0 THEN <<0, SumSeq(maes), Len(maes)>> ELSE Inf

\* the models in the order of the printed rows
RankedModels(b) ==
    LET models   == SortedNames({b[i].key[1] : i \in 1..Len(b)})
        datasets == SortedNames({b[i].key[2] : i \in 1..Len(b)})
    IN  StableSort(models,
                   [i \in 1..Len(models) |-> ModelAvgMae(b, models[i], datasets)])

\* values[(m, d)]
SummaryValues(b, m, d) ==
    IF ~HasKey(b, <<m, d>>) THEN <<"", "", "">>
    ELSE LET info == BestGet(b, <<m, d>>)
         IN  << IF IsNumber(info.MAE) THEN Fixed2(info.MAE.v) ELSE "",
                IF IsNumber(info.RMSE) THEN Fixed2(info.RMSE.v) ELSE "",
                format_mape(info.MAPE) >>

SummaryWidths(b, models, datasets) ==
    [c \in 1..(1 + 3 * Len(datasets)) |->
        IF c = 1
        THEN MaxOf({Len("Model"), Len("Dataset"), Len("Metric")}
                   \cup {Len(models[i]) : i \in 1..Len(models)})
        ELSE LET di == ((c - 2) \div 3) + 1
                 k  == ((c - 2) % 3) + 1
                 d  == datasets[di]
                 hd == IF k = 1 THEN {Len("MAE"), Len(d)}
                       ELSE IF k = 2 THEN {Len("RMSE")}
                       ELSE {Len("MAPE")}
             IN  MaxOf(hd \cup {Len(SummaryValues(b, models[i], d)[k]) :
                                    i \in 1..Len(models)})]

\* cells of a row of 1 + 3 * len(datasets) columns: first, then the three
\* of triples[i] for the i-th dataset
Cells3(first, triples) ==
    [c \in 1..(1 + 3 * Len(triples)) |->
        IF c = 1 THEN first
        ELSE triples[((c - 2) \div 3) + 1][((c - 2) % 3) + 1]]

\* the table: border, two header rows, border, one row per model, border
SummaryLines(b) ==
    LET models   == RankedModels(b)
        datasets == SortedNames({b[i].key[2] : i \in 1..Len(b)})
        widths   == SummaryWidths(b, models, datasets)
        border   == Line("summary", "border", border_line(widths), <<>>, "")
        header1  == Cells3("Dataset",
                           [i \in 1..Len(datasets) |-> <<datasets[i], "", "">>])
        header2  == Cells3("Metric",
                           [i \in 1..Len(datasets) |-> <<"MAE", "RMSE", "MAPE">>])
        aligns   == [c \in 1..Len(widths) |-> IF c = 1 THEN "left" ELSE "right"]
        body(m)  == LET cells == Cells3(m, [i \in 1..Len(datasets) |->
                                                SummaryValues(b, m, datasets[i])])
                    IN  Line("summary", "row", format_row(cells, aligns, widths),
                             cells, m)
    IN  << border,
           Line("summary", "header", format_row_all(header1, "center", widths),
                header1, ""),
           Line("summary", "header", format_row_all(header2, "center", widths),
                header2, ""),
           border >>
        \o [i \in 1..Len(models) |-> body(models[i])]
        \o << border >>

\* print_summary_table without its "if not best_metrics" guard
print_summary_table_unguarded(b) == SummaryLines(b)

print_summary_table(b) ==
    IF Len(b) = 0
    THEN << Line("summary", "msg", "no test_metrics.json found", <<>>, "") >>
    ELSE SummaryLines(b)

PrintSummaryTable ==
    /\ pc = "print_summary_table"
    /\ stdout' = stdout \o print_summary_table(best)
    /\ pc' = "print_detail_tables"
    /\ UNCHANGED <<script, fs, wi, all_runs, best, rows, stderr, tables, raised>>

----------------------------------------------------------------------------
(* print_detail_tables *)

DetailRow(m, r) ==
    [model |-> m, time |-> r.time, timestamp |-> r.timestamp,
     MAE |-> r.MAE, RMSE |-> r.RMSE, MAPE |-> r.MAPE]

\* the list rows of dataset d before it is sorted: every run of every key
\* with that dataset, in the order of all_runs.items()
RECURSIVE GatherRows(_, _)
GatherRows(all, d) ==
    IF Len(all) = 0 THEN <<>>
    ELSE (IF all[1].key[2] = d
          THEN [i \in 1..Len(all[1].runs) |-> DetailRow(all[1].key[1], all[1].runs[i])]
          ELSE <<>>)
         \o GatherRows(Tail(all), d)

\* rows.sort(key=lambda x: x["timestamp"])
SortRowsByTimestamp(rs) ==
    StableSort(rs, [i \in 1..Len(rs) |-> <<0, rs[i].timestamp, 1>>])

\* rows.sort(key=mae_or_inf)
SortRows(rs) == StableSort(rs, [i \in 1..Len(rs) |-> mae_or_inf(rs[i])])

DetailCells(row) ==
    << row.model, row.time,
       IF IsNumber(row.MAE) THEN Fixed4(row.MAE.v) ELSE "",
       IF IsNumber(row.RMSE) THEN Fixed4(row.RMSE.v) ELSE "",
       format_mape(row.MAPE) >>

DetailHeaders == <<"Model", "Time", "MAE", "RMSE", "MAPE">>

\* col_widths left at the lengths of the headers
DetailWidthsOfHeaders(rs) == [c \in 1..5 |-> Len(DetailHeaders[c])]

\* col_widths: the longest of the header and the cells of each column
DetailWidths(rs) ==
    [c \in 1..5 |-> MaxOf({Len(DetailHeaders[c])}
                         \cup {Len(DetailCells(rs[i])[c]) : i \in 1..Len(rs)})]

\* the lines printed for dataset d
DetailTable(all, d) ==
    LET rs     == SortRows(GatherRows(all, d))
        widths == DetailWidths(rs)
        border == Line(d, "border", border_line(widths), <<>>, "")
        aligns == <<"left", "left", "right", "right", "right">>
    IN  IF Len(rs) = 0 THEN <<>>
        ELSE << Line(d, "blank", "", <<>>, ""),
                Line(d, "title", "===== " \o d \o " =====", <<>>, ""),
                border,
                Line(d, "header", format_row_all(DetailHeaders, "center", widths),
                     DetailHeaders, ""),
                border >>
             \o [i \in 1..Len(rs) |->
                    Line(d, "row", format_row(DetailCells(rs[i]), aligns, widths),
                         DetailCells(rs[i]), rs[i])]
             \o << border >>

RECURSIVE DetailTables(_, _)
DetailTables(all, datasets) ==
    IF Len(datasets) = 0 THEN <<>>
    ELSE DetailTable(all, datasets[1]) \o DetailTables(all, Tail(datasets))

print_detail_tables(all) ==
    IF Len(all) = 0 THEN <<>>
    ELSE DetailTables(all, SortedNames({all[i].key[2] : i \in 1..Len(all)}))

\* print_detail_tables sorting the list of runs of every key itself
PrintDetailTablesSortingRuns ==
    /\ pc = "print_detail_tables"
    /\ stdout' = stdout \o print_detail_tables(all_runs)
    /\ all_runs' = [i \in 1..Len(all_runs) |->
                        [all_runs[i] EXCEPT !.runs = SortRows(@)]]
    /\ pc' = "done"
    /\ UNCHANGED <<script, fs, wi, best, rows, stderr, tables, raised>>

PrintDetailTables ==
    /\ pc = "print_detail_tables"
    /\ stdout' = stdout \o print_detail_tables(all_runs)
    /\ pc' = "done"
    /\ UNCHANGED <<script, fs, wi, all_runs, best, rows, stderr, tables, raised>>

----------------------------------------------------------------------------
(* collect_horizon_rows *)

\* The tokens int() parses, with their values; int() raises on any other.
IntOfToken == [t \in {"0", "1", "2", "3"} |-> 
                 IF t = "0" THEN 0 ELSE IF t = "1" THEN 1
                 ELSE IF t = "2" THEN 2 ELSE 3]

\* key.startswith("horizon_")
StartsWithHorizon(key) == Len(key) >= 2 /\ key[1] = "horizon"

\* The horizon of a key: [emit, horizon].  "overall" is 0; another key is
\* skipped unless it starts with "horizon_" and int(key.split("_")[1]) parses.
HorizonOf(key) ==
    IF key = <<"overall">> THEN [emit |-> TRUE, horizon |-> 0]
    ELSE IF ~StartsWithHorizon(key) THEN [emit |-> FALSE, horizon |-> 0]
    ELSE IF key[2] \notin DOMAIN IntOfToken THEN [emit |-> FALSE, horizon |-> 0]
    ELSE [emit |-> TRUE, horizon |-> IntOfToken[key[2]]]

HorizonRow(d, horizon, val) ==
    [model |-> ModelOf(d.dir), dataset |-> DatasetOf(d.dir),
     setting |-> SettingOf(d.dir), horizon |-> horizon,
     MAE |-> val.MAE, MAPE |-> val.MAPE, RMSE |-> val.RMSE,
     time |-> Strftime(d.mtime), path |-> MetricsPath(d.dir),
     timestamp |-> d.mtime]

\* The loop over data.items() of one file, from entry i on: the rows appended
\* and whether val.get raised (val is no dict).
RECURSIVE ItemRows(_, _, _)
ItemRows(d, entries, acc) ==
    IF Len(entries) = 0 THEN [rows |-> acc, exc |-> "none"]
    ELSE LET key == entries[1][1]
             val == entries[1][2]
             h   == HorizonOf(key)
         IN  IF ~h.emit THEN ItemRows(d, Tail(entries), acc)
             ELSE IF val.kind # "dict" THEN [rows |-> acc, exc |-> "AttributeError"]
             ELSE ItemRows(d, Tail(entries), Append(acc, HorizonRow(d, h.horizon, val)))

\* One iteration of the os.walk loop of collect_horizon_rows.
CollectHorizonRowsStep ==
    /\ pc = "collect_horizon_rows"
    /\ wi <= Len(fs)
    /\ LET d == fs[wi]
           r == ItemRows(d, d.content.entries, rows)
       IN  IF ~d.hasfile \/ Len(RelParts(d.dir)) < 2
           THEN /\ wi' = wi + 1
                /\ UNCHANGED <<pc, rows, stderr, raised>>
           ELSE IF d.content.kind = "unreadable"
           THEN /\ stderr' = Append(stderr, WarnLine(d.dir))
                /\ wi' = wi + 1
                /\ UNCHANGED <<pc, rows, raised>>
           ELSE IF d.content.kind # "dict"
           THEN \* data.items() on a list
                /\ raised' = "AttributeError"
                /\ pc' = "raised"
                /\ UNCHANGED <<wi, rows, stderr>>
           ELSE /\ rows' = r.rows
                /\ raised' = r.exc
                /\ pc' = IF r.exc = "none" THEN pc ELSE "raised"
                /\ wi' = IF r.exc = "none" THEN wi + 1 ELSE wi
                /\ UNCHANGED stderr
    /\ UNCHANGED <<script, fs, all_runs, best, stdout, tables>>

CollectHorizonRowsReturn ==
    /\ pc = "collect_horizon_rows"
    /\ wi > Len(fs)
    /\ pc' = "best_table"
    /\ wi' = 1
    /\ UNCHANGED <<script, fs, all_runs, best, rows, stdout, stderr, tables, raised>>

----------------------------------------------------------------------------
(* main of wandb_visualize_test_metrics.py: the three tables *)

\* float(x) if x is not None else None: [ok, val]; float() of a string that
\* is no number raises ValueError
Coerce(x) ==
    IF x.t = "none" THEN [ok |-> TRUE, val |-> [t |-> "none", v |-> 0]]
    ELSE IF x.t = "num" THEN [ok |-> TRUE, val |-> [t |-> "float", v |-> x.v]]
    ELSE [ok |-> FALSE, val |-> x]

CoerceOk(r) == Coerce(r.MAE).ok /\ Coerce(r.RMSE).ok /\ Coerce(r.MAPE).ok

\* the arguments of add_data for a run
RunData(model, dataset, r) ==
    [model |-> model, dataset |-> dataset,
     MAE |-> Coerce(r.MAE).val, RMSE |-> Coerce(r.RMSE).val,
     MAPE |-> Coerce(r.MAPE).val,
     setting |-> r.setting, time |-> r.time, path |-> r.path]

HorizonData(row) ==
    [model |-> row.model, dataset |-> row.dataset, setting |-> row.setting,
     horizon |-> row.horizon,
     MAE |-> Coerce(row.MAE).val, MAPE |-> Coerce(row.MAPE).val,
     RMSE |-> Coerce(row.RMSE).val, time |-> row.time, path |-> row.path]

\* add_data over a list of [ok, data], until the first whose float() raises
RECURSIVE AddAll(_, _)
AddAll(items, acc) ==
    IF Len(items) = 0 THEN [rows |-> acc, exc |-> "none"]
    ELSE IF ~items[1].ok THEN [rows |-> acc, exc |-> "ValueError"]
    ELSE AddAll(Tail(items), Append(acc, items[1].data))

\* sorted(d.items()) of a dict keyed by (model, dataset)
SortedItems(d) ==
    StableSort(d, [i \in 1..Len(d) |->
        <<0, IndexOf(NameOrder, d[i].key[1], 1) * (Len(NameOrder) + 1)
             + IndexOf(NameOrder, d[i].key[2], 1), 1>>])

BestItems(b) ==
    LET sb == SortedItems(b)
    IN  [i \in 1..Len(sb) |->
            [ok |-> CoerceOk(sb[i].run),
             data |-> RunData(sb[i].key[1], sb[i].key[2], sb[i].run)]]

RECURSIVE AllItems(_)
AllItems(sd) ==
    IF Len(sd) = 0 THEN <<>>
    ELSE [i \in 1..Len(sd[1].runs) |->
            [ok |-> CoerceOk(sd[1].runs[i]),
             data |-> RunData(sd[1].key[1], sd[1].key[2], sd[1].runs[i])]]
         \o AllItems(Tail(sd))

HorizonItems(rs) ==
    [i \in 1..Len(rs) |-> [ok |-> CoerceOk(rs[i]), data |-> HorizonData(rs[i])]]

\* Build one table and log it; an exception leaves main().
LogTable(name, items, next) ==
    LET r == AddAll(items, <<>>)
    IN  /\ tables' = [tables EXCEPT ![name] = r.rows]
        /\ raised' = r.exc
        /\ pc' = IF r.exc = "none" THEN next ELSE "raised"
        /\ UNCHANGED <<script, fs, wi, all_runs, best, rows, stdout, stderr>>

LogBestRuns ==
    /\ pc = "best_table"
    /\ LogTable("best_runs", BestItems(best), "all_table")

LogAllRuns ==
    /\ pc = "all_table"
    /\ LogTable("all_runs", AllItems(SortedItems(all_runs)), "horizon_table")

LogHorizonMetrics ==
    /\ pc = "horizon_table"
    /\ LogTable("horizon_metrics", HorizonItems(rows), "finish")

\* run.finish() and the closing message
Finish ==
    /\ pc = "finish"
    /\ stdout' = Append(stdout, Line("wandb", "msg", "wandb sync done", <<>>, ""))
    /\ pc' = "done"
    /\ UNCHANGED <<script, fs, wi, all_runs, best, rows, stderr, tables, raised>>

----------------------------------------------------------------------------
(* The trees the scripts are run on *)

Dir(dir, hasfile, content) ==
    [dir |-> dir, hasfile |-> hasfile, mtime |-> 0, content |-> content]

Unreadable == [kind |-> "unreadable", entries |-> <<>>]
TopList == [kind |-> "list", entries |-> <<>>]
Dict(entries) == [kind |-> "dict", entries |-> entries]

\* length of the longest common prefix of two paths
RECURSIVE Lcp(_, _)
Lcp(a, b) ==
    IF Len(a) = 0 \/ Len(b) = 0 THEN 0
    ELSE IF a[1] # b[1] THEN 0
    ELSE 1 + Lcp(Tail(a), Tail(b))

\* os.walk is top-down and depth-first: a directory comes before what is below
\* it, and the directories of one subtree are visited together.
WalkOrder(t) ==
    /\ \A i, j \in 1..Len(t) : i < j =>
          /\ t[i].dir # t[j].dir
          /\ ~(Lcp(t[i].dir, t[j].dir) = Len(t[j].dir))
    /\ \A i, j, k \in 1..Len(t) : (i < j /\ j < k) =>
          Lcp(t[i].dir, t[k].dir) <= Lcp(t[i].dir, t[j].dir)

\* the file at position i was written i * 45 seconds after the epoch
WithMtimes(t) == [i \in 1..Len(t) |-> [t[i] EXCEPT !.mtime = i * 45]]

SeqsUpTo(S, n) == UNION {[1..k -> S] : k \in 0..n}

(* The full specification: any shape of directory and of file content. *)

ScanDirs == { <<>>, << <<"A">> >>, << <<"A">>, <<"X", "1">> >>,
              << <<"B">>, <<"X", "1">>, <<"h">> >> }

ScanVals == { Scalar,
              Metrics(Num(Scale), Num(2 * Scale), None),
              Metrics(Str, None, Num(Scale \div 2)) }

ScanKeys == { <<"horizon", "1">>, <<"horizon", "3", "extra">>,
              <<"horizon", "x">>, <<"horizon", "">>, <<"note">> }

ScanContents ==
    {Unreadable, TopList}
    \cup {Dict(o \o h) :
            o \in {<<>>} \cup {<< <<<<"overall">>, v>> >> : v \in ScanVals},
            h \in {<<>>} \cup {<< <<k, v>> >> : k \in ScanKeys, v \in ScanVals}}

ScanEntries ==
    {Dir(d, TRUE, c) : d \in ScanDirs, c \in ScanContents}
    \cup {Dir(d, FALSE, Unreadable) : d \in ScanDirs}

ScanTrees == {WithMtimes(t) : t \in {u \in SeqsUpTo(ScanEntries, MaxDirs) : WalkOrder(u)}}

InitState(scripts, trees) ==
    /\ script \in scripts
    /\ fs \in trees
    /\ pc = "collect_all_runs"
    /\ wi = 1
    /\ all_runs = <<>>
    /\ best = <<>>
    /\ rows = <<>>
    /\ stdout = <<>>
    /\ stderr = <<>>
    /\ tables = [best_runs |-> <<>>, all_runs |-> <<>>, horizon_metrics |-> <<>>]
    /\ raised = "none"

Init == InitState({"collect_metrics", "wandb"}, ScanTrees)

\* main() of collect_metrics.py
NextReport ==
    \/ CollectAllRunsStep
    \/ CollectAllRunsReturn
    \/ ChooseBest
    \/ PrintSummaryTable
    \/ PrintDetailTables

\* main() of wandb_visualize_test_metrics.py, after choose_best
NextWandb ==
    \/ CollectHorizonRowsStep
    \/ CollectHorizonRowsReturn
    \/ LogBestRuns
    \/ LogAllRuns
    \/ LogHorizonMetrics
    \/ Finish

Next == NextReport \/ NextWandb

Spec == Init /\ [][Next]_vars

(* The report specification: collect_metrics.py on trees of result files     *)
(* <model>/<setting>/<hash>/test_metrics.json that hold an "overall" entry.  *)

ReportMaes == {None} \cup {Num(k * Scale) : k \in 1..MaxMAE}

\* the "overall" entry of a generated file with the given MAE
OverallOf(mae) ==
    Metrics(mae, IF IsNumber(mae) THEN Num(2 * mae.v) ELSE None, Num(1523))

ReportFile(m, ds, mae) ==
    Dir(<< <<m>>, <<ds, "1">>, <<"h">> >>, TRUE,
        Dict(<< <<<<"overall">>, OverallOf(mae)>> >>))

ReportEntries ==
    {ReportFile(m, ds, mae) : m \in {"A", "B"}, ds \in {"X", "Y"}, mae \in ReportMaes}
    \cup {ReportFile("A", "X", Str)}

\* the hash directory of the file at position i is "h_<i>"
WithHashes(t) ==
    [i \in 1..Len(t) |->
        IF Len(t[i].dir) = 3
        THEN [t[i] EXCEPT !.dir = <<t[i].dir[1], t[i].dir[2], <<"h", ToString(i)>> >>]
        ELSE t[i]]

ReportTrees ==
    {WithMtimes(t) : t \in {u \in {WithHashes(v) : v \in SeqsUpTo(ReportEntries, MaxRuns)} :
                                WalkOrder(u)}}

InitReport == InitState({"collect_metrics"}, ReportTrees)

SpecReport == InitReport /\ [][NextReport]_vars

(* The sparse specification: collect_metrics.py on trees in which few or no  *)
(* files are eligible.                                                       *)

SparseContents ==
    { Unreadable, TopList, Dict(<<>>),
      Dict(<< <<<<"overall">>, Scalar>> >>),
      Dict(<< <<<<"overall">>, OverallOf(Num(Scale))>> >>) }

SparseEntries ==
    {Dir(d, TRUE, c) : d \in ScanDirs, c \in SparseContents}
    \cup {Dir(d, FALSE, Unreadable) : d \in ScanDirs}

SparseTrees ==
    {WithMtimes(t) : t \in {u \in SeqsUpTo(SparseEntries, MaxDirs) : WalkOrder(u)}}

InitSparse == InitState({"collect_metrics"}, SparseTrees)

SpecSparse == InitSparse /\ [][NextReport]_vars

(* The table specification: collect_metrics.py on trees whose files differ  *)
(* in the MAPE, in the lengths of the model and dataset names and in which   *)
(* metrics they hold.                                                        *)

\* the MAPE values of the generated files: absent, 0, 0.1523, 0.9999, 1 and
\* 15.23
TableMapes == {None, Num(0), Num(1523), Num(9999), Num(Scale), Num(152300)}

TableFile(m, ds, overall) ==
    Dir(<< <<m>>, <<ds, "1">>, <<"h">> >>, TRUE,
        Dict(<< <<<<"overall">>, overall>> >>))

\* the metrics of a generated file with the given MAPE
TableOverall(mape) == Metrics(Num(Scale), Num(2 * Scale), mape)

TableEntries ==
    {TableFile(m, "X", TableOverall(mape)) : m \in {"A", "LongModel"}, mape \in TableMapes}
    \cup { TableFile("A", "PEMS", TableOverall(Num(1523))),
           TableFile("LongModel", "PEMS", TableOverall(Num(Scale))),
           TableFile("A", "X", EmptyDict),
           TableFile("LongModel", "PEMS", EmptyDict) }

TableTrees ==
    {WithMtimes(t) : t \in {u \in {WithHashes(v) : v \in SeqsUpTo(TableEntries, MaxFiles)} :
                                WalkOrder(u)}}

InitTables == InitState({"collect_metrics"}, TableTrees)

SpecTables == InitTables /\ [][NextReport]_vars

----------------------------------------------------------------------------
(* Claims *)

\* choose_best has run
Chosen == pc \notin {"collect_all_runs", "choose_best"}

\* x < y on MAE values, one that is no number counted as infinite
MaeLT(x, y) == IsNumber(x) /\ (~IsNumber(y) \/ x.v < y.v)

\* the index in fs of the file a run was read from
FileOf(r) == CHOOSE i \in 1..Len(fs) : MetricsPath(fs[i].dir) = r.path

\* C1: after choose_best, for every key and every run r under it whose MAE is
\* a number, the run selected for the key has a numeric MAE <= r's MAE; a run
\* without a numeric MAE is selected only when no run of the key has one.
C1_BestIsMinimal ==
    Chosen =>
        /\ Len(best) = Len(all_runs)
        /\ \A i \in 1..Len(all_runs) :
            /\ best[i].key = all_runs[i].key
            /\ \E j \in 1..Len(all_runs[i].runs) : best[i].run = all_runs[i].runs[j]
            /\ \A j \in 1..Len(all_runs[i].runs) :
                  IsNumber(all_runs[i].runs[j].MAE) =>
                      /\ IsNumber(best[i].run.MAE)
                      /\ best[i].run.MAE.v <= all_runs[i].runs[j].MAE.v
            /\ ~IsNumber(best[i].run.MAE) =>
                  \A j \in 1..Len(all_runs[i].runs) : ~IsNumber(all_runs[i].runs[j].MAE)

\* C1 witness: a key whose first run has no MAE and whose later runs have
\* different numeric MAEs, the smallest of them selected
C1_Witness ==
    /\ Chosen
    /\ \E i \in 1..Len(all_runs) :
          /\ Len(all_runs[i].runs) = 3
          /\ ~IsNumber(all_runs[i].runs[1].MAE)
          /\ IsNumber(all_runs[i].runs[2].MAE)
          /\ IsNumber(all_runs[i].runs[3].MAE)
          /\ all_runs[i].runs[3].MAE.v < all_runs[i].runs[2].MAE.v
          /\ best[i].run = all_runs[i].runs[3]

\* C2: the run selected for a key is the earliest in traversal order among
\* the runs of the key with the least MAE (absent counted as infinite): every
\* file of the key that the walk visited before the selected run's file has a
\* strictly larger MAE than the selected run.
C2_FirstOfMinimal ==
    Chosen =>
        \A i \in 1..Len(best) :
            \A j \in 1..Len(all_runs[i].runs) :
                LET r == all_runs[i].runs[j]
                IN  FileOf(r) < FileOf(best[i].run) => MaeLT(best[i].run.MAE, r.MAE)

\* C2 witness: two keys, one whose two runs share the least MAE and one whose
\* runs all lack a MAE; in both the first run is selected
C2_Witness ==
    /\ Chosen
    /\ \E i \in 1..Len(all_runs) :
          /\ Len(all_runs[i].runs) = 2
          /\ IsNumber(all_runs[i].runs[1].MAE)
          /\ all_runs[i].runs[1].MAE = all_runs[i].runs[2].MAE
          /\ best[i].run = all_runs[i].runs[1]
          /\ best[i].run # all_runs[i].runs[2]
    /\ \E i \in 1..Len(all_runs) :
          /\ ~IsNumber(all_runs[i].runs[1].MAE)
          /\ best[i].run = all_runs[i].runs[1]

\* the body rows printed in table tab, in the order printed
BodyRows(tab) == SelectSeq(stdout, LAMBDA l : l.tab = tab /\ l.kind = "row")

\* the best runs of model m that have a numeric MAE
NumericBest(m) == {i \in 1..Len(best) : best[i].key[1] = m /\ IsNumber(best[i].run.MAE)}

RECURSIVE SumBestMae(_)
SumBestMae(S) ==
    IF S = {} THEN 0
    ELSE LET i == CHOOSE x \in S : TRUE
         IN  best[i].run.MAE.v + SumBestMae(S \ {i})

\* mean(m1) <= mean(m2), the mean of a model without any numeric MAE being
\* larger than every other
MeanLE(m1, m2) ==
    \/ NumericBest(m2) = {}
    \/ /\ NumericBest(m1) # {}
       /\ SumBestMae(NumericBest(m1)) * Cardinality(NumericBest(m2))
            <= SumBestMae(NumericBest(m2)) * Cardinality(NumericBest(m1))

\* C3: the summary table has one row per model, in non-decreasing order of
\* the model's mean best-run MAE over the datasets where it has a numeric
\* MAE; a model with none comes after every model that has one.
C3_RowsByMeanMae ==
    (pc \in {"print_detail_tables", "done"} /\ Len(best) > 0) =>
        LET rs == BodyRows("summary")
        IN  /\ {rs[i].src : i \in 1..Len(rs)} = {best[i].key[1] : i \in 1..Len(best)}
            /\ Len(rs) = Cardinality({best[i].key[1] : i \in 1..Len(best)})
            /\ \A i, j \in 1..Len(rs) : i < j => MeanLE(rs[i].src, rs[j].src)

\* C3 witness: A has a MAE on X and on Y, B on X only and a smaller mean:
\* the rows are B, then A
C3_Witness ==
    /\ pc = "done"
    /\ {best[i].key : i \in 1..Len(best)} = {<<"A", "X">>, <<"A", "Y">>, <<"B", "X">>}
    /\ \A i \in 1..Len(best) : IsNumber(best[i].run.MAE)
    /\ ~MeanLE("A", "B")
    /\ LET rs == BodyRows("summary")
       IN  Len(rs) = 2 /\ rs[1].src = "B" /\ rs[2].src = "A" /\ rs[1].cells[5] = ""

\* the places <<i, j>> of the runs of dataset d in all_runs
RunsOfDataset(d) ==
    {p \in (1..Len(all_runs)) \X (1..MaxRuns + 1) :
        /\ all_runs[p[1]].key[2] = d
        /\ p[2] <= Len(all_runs[p[1]].runs)}

\* the printed row src shows the run at place p
ShowsRun(src, p) ==
    LET r == all_runs[p[1]].runs[p[2]]
    IN  /\ src.model = all_runs[p[1]].key[1]
        /\ src.timestamp = r.timestamp
        /\ src.time = r.time
        /\ src.MAE = r.MAE /\ src.RMSE = r.RMSE /\ src.MAPE = r.MAPE

PlaceOf(src, d) == CHOOSE p \in RunsOfDataset(d) : ShowsRun(src, p)

\* C4: the detail table of every dataset has exactly one row per run of the
\* dataset, in ascending MAE order with the rows without a MAE last, and rows
\* of equal MAE in the order they were gathered from all_runs.
C4_DetailRows ==
    pc = "done" =>
        \A d \in {all_runs[i].key[2] : i \in 1..Len(all_runs)} :
            LET rs == BodyRows(d)
            IN  /\ Len(rs) = Cardinality(RunsOfDataset(d))
                /\ \A p \in RunsOfDataset(d) :
                      Cardinality({k \in 1..Len(rs) : ShowsRun(rs[k].src, p)}) = 1
                /\ \A k, l \in 1..Len(rs) : k < l =>
                      /\ ~MaeLT(rs[l].src.MAE, rs[k].src.MAE)
                      /\ ~MaeLT(rs[k].src.MAE, rs[l].src.MAE) =>
                            LET pk == PlaceOf(rs[k].src, d)
                                pl == PlaceOf(rs[l].src, d)
                            IN  pk[1] < pl[1] \/ (pk[1] = pl[1] /\ pk[2] < pl[2])

\* C4 witness: a table of three rows of two models, gathered as (no MAE, m, m)
\* and printed as (m, m, no MAE)
C4_Witness ==
    /\ pc = "done"
    /\ \E d \in {all_runs[i].key[2] : i \in 1..Len(all_runs)} :
          LET rs == BodyRows(d)
          IN  /\ Len(rs) = 3
              /\ IsNumber(rs[1].src.MAE)
              /\ rs[1].src.MAE = rs[2].src.MAE
              /\ rs[1].src.model # rs[2].src.model
              /\ ~IsNumber(rs[3].src.MAE)
              /\ rs[3].src.timestamp < rs[1].src.timestamp
              /\ rs[1].src.timestamp < rs[2].src.timestamp

\* C9: when the scan found no eligible result file, main of collect_metrics.py
\* raises nothing and prints the "nothing found" message once and no other
\* line.
C9_EmptyRepository ==
    /\ raised = "none" /\ pc # "raised"
    /\ (Len(all_runs) = 0 /\ pc \in {"print_detail_tables", "done"}) =>
          /\ Len(stdout) = 1
          /\ stdout[1].kind = "msg"
          /\ stdout[1].tab = "summary"

\* C9 witness: main is done on a tree that holds result files, none of them
\* eligible, some unreadable
C9_Witness ==
    /\ pc = "done"
    /\ Len(all_runs) = 0
    /\ Len(fs) = 2
    /\ \A i \in 1..Len(fs) : fs[i].hasfile
    /\ Len(stderr) = 1
    /\ Len(stdout) = 1

----------------------------------------------------------------------------
(* Claims about the scans and the hand-off of wandb_visualize_test_metrics.py *)

\* the key is "horizon_<integer>" and nothing more
WellFormedHorizonKey(key) ==
    Len(key) = 2 /\ key[1] = "horizon" /\ key[2] \in DOMAIN IntOfToken

\* The file fs[i] cannot be read or does not parse into the expected
\* structure: it is no JSON, its top level is no dict, or its "overall" or a
\* "horizon_<N>" entry is no dict.
Failing(i) ==
    /\ fs[i].hasfile
    /\ \/ fs[i].content.kind # "dict"
       \/ \E e \in 1..Len(fs[i].content.entries) :
             /\ fs[i].content.entries[e][2].kind # "dict"
             /\ \/ fs[i].content.entries[e][1] = <<"overall">>
                \/ WellFormedHorizonKey(fs[i].content.entries[e][1])

AllRunPaths == {all_runs[i].runs[j].path :
                   <<i, j>> \in {p \in (1..Len(all_runs)) \X (1..MaxDirs + 1) :
                                    p[2] <= Len(all_runs[p[1]].runs)}}

\* the scans of wandb_visualize_test_metrics.py have ended: both returned, or
\* an exception left main()
ScansEnded ==
    /\ script = "wandb"
    /\ pc \in {"raised", "best_table", "all_table", "horizon_table", "finish", "done"}

\* C5: on a tree with failing files both scans run to completion without
\* raising, and a failing file contributes no Run and no HorizonRow.
C5_ScansSurviveBadFiles ==
    ScansEnded =>
        /\ raised # "AttributeError"
        /\ \A i \in 1..Len(fs) :
              Failing(i) =>
                  /\ MetricsPath(fs[i].dir) \notin AllRunPaths
                  /\ \A k \in 1..Len(rows) : rows[k].path # MetricsPath(fs[i].dir)

\* collect_horizon_rows has returned
HorizonScanned ==
    /\ script = "wandb"
    /\ pc \in {"best_table", "all_table", "horizon_table", "finish", "done"}

\* C6: every Run has, among the HorizonRows of its file, exactly one of
\* horizon 0, with the Run's MAE, RMSE and MAPE, and exactly one per
\* "horizon_<N>" block of the file.
C6_RunHasOverallRow ==
    HorizonScanned =>
        \A i \in 1..Len(all_runs) : \A j \in 1..Len(all_runs[i].runs) :
            LET r  == all_runs[i].runs[j]
                f  == fs[FileOf(r)]
                hs == {k \in 1..Len(rows) : rows[k].path = r.path /\ rows[k].horizon = 0}
            IN  /\ Cardinality(hs) = 1
                /\ \A k \in hs : /\ rows[k].MAE = r.MAE
                                 /\ rows[k].RMSE = r.RMSE
                                 /\ rows[k].MAPE = r.MAPE
                /\ \A e \in 1..Len(f.content.entries) :
                      WellFormedHorizonKey(f.content.entries[e][1]) =>
                          Cardinality({k \in 1..Len(rows) :
                              /\ rows[k].path = r.path
                              /\ rows[k].horizon = IntOfToken[f.content.entries[e][1][2]]}) = 1

\* C7: a HorizonRow is emitted only for the key "overall", as horizon 0, or
\* for a well-formed key "horizon_<integer>", as that integer; so every row
\* has a horizon >= 0.
C7_RowsOnlyForRecognizedKeys ==
    \A k \in 1..Len(rows) :
        /\ rows[k].horizon >= 0
        /\ \E i \in 1..Len(fs) :
              /\ MetricsPath(fs[i].dir) = rows[k].path
              /\ \E e \in 1..Len(fs[i].content.entries) :
                    LET key == fs[i].content.entries[e][1]
                    IN  \/ key = <<"overall">> /\ rows[k].horizon = 0
                        \/ /\ WellFormedHorizonKey(key)
                           /\ rows[k].horizon = IntOfToken[key[2]]
                           /\ rows[k].horizon # 0

\* C8: a result file less than two segments below the root yields no Run, no
\* HorizonRow and no warning, whatever its content.
C8_ShallowFilesSilent ==
    \A i \in 1..Len(fs) :
        (fs[i].hasfile /\ Len(RelParts(fs[i].dir)) < 2) =>
            /\ MetricsPath(fs[i].dir) \notin AllRunPaths
            /\ \A k \in 1..Len(rows) : rows[k].path # MetricsPath(fs[i].dir)
            /\ \A k \in 1..Len(stderr) : stderr[k] # WarnLine(fs[i].dir)

SinkRows == tables.best_runs \o tables.all_runs \o tables.horizon_metrics

\* C10: building the rows for the sink never raises, and every MAE, RMSE and
\* MAPE handed to it is a float or the no-value marker.
C10_SinkFieldsCoerced ==
    /\ raised # "ValueError"
    /\ \A k \in 1..Len(SinkRows) :
          /\ SinkRows[k].MAE.t \in {"float", "none"}
          /\ SinkRows[k].RMSE.t \in {"float", "none"}
          /\ SinkRows[k].MAPE.t \in {"float", "none"}

\* the percentage n / Scale printed with two decimal digits: the count h of
\* hundredths nearest to it, as "<h div 100>.<two digits>%"
C11_Percent(n) ==
    LET h == CHOOSE k \in 0..(((n * 100) \div Scale) + 1) :
                 /\ 2 * (k * Scale - n * 100) < Scale
                 /\ 2 * (n * 100 - k * Scale) < Scale
    IN  ToString(h \div 100) \o "." \o (IF h % 100 < 10 THEN "0" ELSE "")
            \o ToString(h % 100) \o "%"

\* what the claim says a MAPE that is absent or a number is rendered as
C11_Rendering(mape) ==
    IF mape = None THEN ""
    ELSE IF mape.v < Scale THEN C11_Percent(mape.v * 100)
    ELSE C11_Percent(mape.v)

\* the column of the summary table that holds the MAPE of dataset d
C11_MapeColumn(d) ==
    1 + 3 * (1 + Cardinality({e \in {best[i].key[2] : i \in 1..Len(best)} : StrLT(e, d)}))

\* C11: an absent MAPE is printed as the empty string, a MAPE v < 1 as the
\* percentage v * 100 with two decimal digits and a MAPE v >= 1 as the
\* percentage v with two decimal digits, both in the row of the summary table
\* for a best run and in the row of the detail table for every run.
C11_MapeRendering ==
    pc = "done" =>
        /\ \A i \in 1..Len(best) :
              LET rs == BodyRows("summary")
              IN  \E k \in 1..Len(rs) :
                      /\ rs[k].src = best[i].key[1]
                      /\ rs[k].cells[C11_MapeColumn(best[i].key[2])]
                            = C11_Rendering(best[i].run.MAPE)
        /\ \A d \in {all_runs[i].key[2] : i \in 1..Len(all_runs)} :
              \A p \in RunsOfDataset(d) :
                  LET rs == BodyRows(d)
                  IN  \E k \in 1..Len(rs) :
                          /\ ShowsRun(rs[k].src, p)
                          /\ rs[k].cells[5]
                                = C11_Rendering(all_runs[p[1]].runs[p[2]].MAPE)

\* C11 witness: two models on one dataset, one with MAPE 0.1523 and one with
\* MAPE 15.23; both are printed as "15.23%" in the summary table and in the
\* detail table
C11_Witness ==
    /\ pc = "done"
    /\ Len(best) = 2
    /\ best[1].key[2] = best[2].key[2]
    /\ {best[1].run.MAPE, best[2].run.MAPE} = {Num(1523), Num(152300)}
    /\ LET rs == BodyRows("summary")
       IN  Len(rs) = 2 /\ rs[1].cells[4] = "15.23%" /\ rs[2].cells[4] = "15.23%"
    /\ LET rs == BodyRows(best[1].key[2])
       IN  /\ Len(rs) = 2
           /\ rs[1].src.MAPE # rs[2].src.MAPE
           /\ rs[1].cells[5] = "15.23%" /\ rs[2].cells[5] = "15.23%"

\* C12: once collect_all_runs has returned, no step of main changes all_runs
\* (the keys, the order of the runs under each key, the fields of each run),
\* and once choose_best has returned no step changes the runs that
\* best_metrics refers to.
C12_RepositoryFrozen ==
    [][/\ pc # "collect_all_runs" => all_runs' = all_runs
       /\ pc \notin {"collect_all_runs", "choose_best"} => best' = best]_vars

\* C12 witness: main is done and both kinds of table are printed; a key holds
\* two runs of which the second has the smaller MAE, is the best run and is
\* printed first in the detail table, and the list still has its order
C12_Witness ==
    /\ pc = "done"
    /\ \E l \in 1..Len(stdout) : stdout[l].tab = "summary" /\ stdout[l].kind = "row"
    /\ \E i \in 1..Len(all_runs) :
          /\ Len(all_runs[i].runs) = 2
          /\ MaeLT(all_runs[i].runs[2].MAE, all_runs[i].runs[1].MAE)
          /\ all_runs[i].runs[1].timestamp < all_runs[i].runs[2].timestamp
          /\ best[i].run = all_runs[i].runs[2]
          /\ LET rs == BodyRows(all_runs[i].key[2])
             IN  /\ Len(rs) = 2
                 /\ ShowsRun(rs[1].src, <<i, 2>>)
                 /\ ShowsRun(rs[2].src, <<i, 1>>)

\* the border, header and body lines printed for table tab, in order
C13_TableLines(tab) ==
    SelectSeq(stdout, LAMBDA l : l.tab = tab /\ l.kind \in {"border", "header", "row"})

\* the sum over the columns of (width + 2), plus the number of columns, plus 1
C13_LineLength(widths) ==
    SumSeq([c \in 1..Len(widths) |-> widths[c] + 2]) + Len(widths) + 1

\* no cell of table tab is longer than the width of its column, and every
\* line of the table has the length that the widths give
C13_Fits(tab, widths) ==
    LET ls == C13_TableLines(tab)
    IN  \A i \in 1..Len(ls) :
            /\ Len(ls[i].text) = C13_LineLength(widths)
            /\ Len(ls[i].text) = Len(ls[1].text)
            /\ ls[i].kind # "border" =>
                  /\ Len(ls[i].cells) = Len(widths)
                  /\ \A c \in 1..Len(widths) : Len(ls[i].cells[c]) <= widths[c]

\* the dataset names of the repository, sorted
C13_Datasets == SortedNames({all_runs[i].key[2] : i \in 1..Len(all_runs)})

\* C13: in the summary table and in every detail table, the width of each
\* column is at least the length of every header cell and body cell of the
\* column, and every border line, header row and body row has the same
\* length: the sum over the columns of (width + 2), plus the number of
\* columns, plus 1.
C13_ColumnsFit ==
    /\ (pc \in {"print_detail_tables", "done"} /\ Len(best) > 0) =>
          /\ Len(C13_TableLines("summary")) = 5 + Len(BodyRows("summary"))
          /\ C13_Fits("summary", SummaryWidths(best, RankedModels(best), C13_Datasets))
    /\ pc = "done" =>
          \A i \in 1..Len(C13_Datasets) :
              LET d == C13_Datasets[i]
              IN  /\ Len(C13_TableLines(d)) = 4 + Len(BodyRows(d))
                  /\ C13_Fits(d, DetailWidths(SortRows(GatherRows(all_runs, d))))

\* C13 witness: both tables are printed for the models "A" and "LongModel"
\* and the datasets "PEMS" and "X": the first column of the summary table is
\* as wide as "LongModel", which is longer than its headers, the row of "A"
\* is padded to it and has an empty cell, the detail table of "X" has a MAE
\* cell longer than its header and that of "PEMS" an empty one
C13_Witness ==
    /\ pc = "done"
    /\ C13_Datasets = <<"PEMS", "X">>
    /\ LET rs == BodyRows("summary")
           w  == SummaryWidths(best, RankedModels(best), C13_Datasets)
       IN  /\ {rs[k].src : k \in 1..Len(rs)} = {"A", "LongModel"}
           /\ w[1] = Len("LongModel") /\ w[1] > Len("Dataset")
           /\ w[2] = Len("PEMS") /\ w[2] > Len("MAE")
           /\ \E k \in 1..Len(rs) : rs[k].src = "A" /\ rs[k].cells[2] = ""
    /\ LET rs == BodyRows("X")
       IN  Len(rs) = 1 /\ Len(rs[1].cells[3]) > Len("MAE")
    /\ LET rs == BodyRows("PEMS")
       IN  Len(rs) = 1 /\ rs[1].cells[3] = ""

====
